---------------------------- MODULE Spec2Model ----------------------------
(* A model of fcm-rust: the Google OAuth2 token cache (src/src/oauth.rs)   *)
(* and the batch send path of the Firebase Cloud Messaging client          *)
(* (src/src/fcm.rs).                                                       *)
EXTENDS Integers, Sequences, FiniteSets, TLC

(***************************************************************************)
(* Bounds of the model.                                                    *)
(***************************************************************************)
NumProcs == 2
MaxTicks == 1
MaxCalls == 2
StartNow == 2
MaxBatch == 2
MaxParts == 2

(***************************************************************************)
(* Program constants.                                                      *)
(***************************************************************************)
FreshFor == 3420
Lifetime == 3600
StatusOK == 200

Procs == 1..NumProcs

(* Option<T>: None is the empty sequence, Some(v) the one-element one.     *)
None == << >>
Some(v) == << v >>
IsSome(o) == Len(o) = 1
Unwrap(o) == o[1]

(***************************************************************************)
(* Tokens.  A token string is the sequence of its '.'-separated segments.  *)
(* A segment is a record: b64 says whether the text is valid unpadded      *)
(* URL-safe base64, kind what the decoded bytes are ("claims": a JSON      *)
(* object with every field of Payload; "partial": a JSON object without    *)
(* iat; "junk": not JSON; "header", "sig"), iat and exp the claims' iat    *)
(* and exp.                                                                *)
(***************************************************************************)
Seg(b, k, i, e) == [b64 |-> b, kind |-> k, iat |-> i, exp |-> e]

PayloadNewFixedIat(t) == [iat |-> 0, exp |-> Lifetime]

PayloadNew(t) == [iat |-> t, exp |-> t + Lifetime]

Encode(payload) ==
    << Seg(TRUE, "header", 0, 0),
       Seg(TRUE, "claims", payload.iat, payload.exp),
       Seg(TRUE, "sig", payload.iat, payload.exp) >>

DecodePayload(token) ==
    IF Len(token) < 2 THEN None
    ELSE LET p == token[2] IN
         IF ~p.b64 THEN None
         ELSE IF p.kind # "claims" THEN None
         ELSE Some([iat |-> p.iat, exp |-> p.exp])

(* now() - payload.iat on u64: "value" with the difference, or "overflow"  *)
(* when the subtrahend is the larger.                                      *)
SubU64(a, b) ==
    IF a >= b THEN [kind |-> "value", v |-> a - b]
    ELSE [kind |-> "overflow", v |-> b - a]

(* The outcome of check(token) at clock reading t under a build:           *)
(* "true", "false" or "panic".  An overflowing subtraction panics when     *)
(* overflow checks are on (debug) and wraps to 2^64 - (iat - now), which   *)
(* exceeds 3420 for every iat - now < 2^64 - 3420, when they are off.      *)
Check(token, t, bld) ==
    LET d == DecodePayload(token) IN
    IF ~IsSome(d) THEN "false"
    ELSE LET s == SubU64(t, Unwrap(d).iat) IN
         IF s.kind = "value"
         THEN (IF s.v <= FreshFor THEN "true" ELSE "false")
         ELSE (IF bld = "debug" THEN "panic" ELSE "false")

(* The value get_token returns for the cloned cache content c at clock     *)
(* reading t: kind "return" with Some(token) when the guard holds and None *)
(* otherwise, or kind "panic" when check panics.                           *)
GetTokenResult(c, t, bld) ==
    IF ~IsSome(c) THEN [kind |-> "return", v |-> None]
    ELSE LET r == Check(Unwrap(c), t, bld) IN
         IF r = "panic" THEN [kind |-> "panic", v |-> None]
         ELSE IF r = "true" THEN [kind |-> "return", v |-> c]
         ELSE [kind |-> "return", v |-> None]

(* The content of the holder while Option::replace is moving the new       *)
(* String in: not a token.                                                 *)
MidWrite == Some(<< Seg(FALSE, "torn", 0, 0) >>)

NeedsUpdateAlways(r) == TRUE

(* get_or_update_token: update_token runs when get_token gave None.        *)
NeedsUpdate(r) == ~IsSome(r)

(* RwLock: read() is granted while no writer holds the lock, write() while *)
(* nobody holds it.                                                        *)
CanReadUnlocked(w, rs) == TRUE

CanRead(w, rs) == w = 0
CanWrite(w, rs) == w = 0 /\ rs = {}

(***************************************************************************)
(* Text.  A str is the sequence of its atoms: "CRLF" is "\r\n", "SP" a      *)
(* space, "--" two dashes, ";" a semicolon, "boundary=" that text, "b1" and *)
(* "b2" boundary strings, "H" a run of other text that holds no white      *)
(* space and is not JSON (a header, a status line).  The JSON atoms are    *)
(* "{" and "}", the members "nA" and "nB" ("name": "A", "name": "B"), "e"  *)
(* (an "error" member with code 400, message and status), "ne" (a name     *)
(* member A, a comma and an error member) and the one-line                 *)
(* objects "OkA", "OkB" (a name member), "Err" (an error member), "Both"   *)
(* (a name member A and an error member) and "Obj" (neither).              *)
(***************************************************************************)
IsWhite(a) == a \in {"CRLF", "SP"}

RECURSIVE TrimStart(_)
TrimStart(s) ==
    IF s # << >> /\ IsWhite(Head(s)) THEN TrimStart(Tail(s)) ELSE s

RECURSIVE TrimEnd(_)
TrimEnd(s) ==
    IF s # << >> /\ IsWhite(s[Len(s)]) THEN TrimEnd(SubSeq(s, 1, Len(s) - 1))
    ELSE s

(* str::trim *)
Trim(s) == TrimEnd(TrimStart(s))

StartsWith(s, pat) ==
    Len(s) >= Len(pat) /\ SubSeq(s, 1, Len(pat)) = pat

MatchAt(s, pat, i) ==
    i + Len(pat) - 1 <= Len(s) /\ SubSeq(s, i, i + Len(pat) - 1) = pat

HasMatch(s, pat) == \E i \in 1..Len(s) : MatchAt(s, pat, i)

FirstMatch(s, pat) ==
    CHOOSE i \in 1..Len(s) :
        MatchAt(s, pat, i) /\ \A j \in 1..(i - 1) : ~MatchAt(s, pat, j)

(* str::split(pat) for a non-empty pat: the pieces between the matches,    *)
(* found left to right without overlap; a str without a match is one piece.*)
RECURSIVE Split(_, _)
Split(s, pat) ==
    IF ~HasMatch(s, pat) THEN << s >>
    ELSE LET i == FirstMatch(s, pat) IN
         << SubSeq(s, 1, i - 1) >>
             \o Split(SubSeq(s, i + Len(pat), Len(s)), pat)

(* str::replacen(pat, "", 1) *)
RemoveFirst(s, pat) ==
    IF ~HasMatch(s, pat) THEN s
    ELSE LET i == FirstMatch(s, pat) IN
         SubSeq(s, 1, i - 1) \o SubSeq(s, i + Len(pat), Len(s))

RECURSIVE Concat(_)
Concat(ss) == IF ss = << >> THEN << >> ELSE Head(ss) \o Concat(Tail(ss))

TakeAll(s, n) == s

(* Iterator::take *)
Take(s, n) == SubSeq(s, 1, IF n < Len(s) THEN n ELSE Len(s))

(***************************************************************************)
(* serde_json::from_str.  A JSON text is one value between optional white  *)
(* space; the value read here is an object, given by its members: name     *)
(* ("" when there is no name member) and code (0 when there is no error    *)
(* member).  Trailing text after the value is an error.                    *)
(***************************************************************************)
NoJson == [ok |-> FALSE, name |-> "", code |-> 0]
Object(n, c) == [ok |-> TRUE, name |-> n, code |-> c]

NotWhite(a) == ~IsWhite(a)

MemberOf(a) ==
    IF a = "nA" THEN Object("A", 0)
    ELSE IF a = "nB" THEN Object("B", 0)
    ELSE IF a = "e" THEN Object("", 400)
    ELSE IF a = "ne" THEN Object("A", 400)
    ELSE NoJson

JsonObject(s) ==
    LET t == Trim(s) IN
    IF Len(t) = 1 THEN
        (IF t[1] = "OkA" THEN Object("A", 0)
         ELSE IF t[1] = "OkB" THEN Object("B", 0)
         ELSE IF t[1] = "Err" THEN Object("", 400)
         ELSE IF t[1] = "Both" THEN Object("A", 400)
         ELSE IF t[1] = "Obj" THEN Object("", 0)
         ELSE NoJson)
    ELSE IF Len(t) >= 2 /\ t[1] = "{" /\ t[Len(t)] = "}" THEN
        LET inner == SelectSeq(SubSeq(t, 2, Len(t) - 1), NotWhite) IN
        IF inner = << >> THEN Object("", 0)
        ELSE IF Len(inner) = 1 THEN MemberOf(inner[1])
        ELSE NoJson
    ELSE NoJson

(* from_str::<SendMessageSuccessResponse>: the name field is required,     *)
(* other members are ignored.                                              *)
DecodeSuccess(s) ==
    LET j == JsonObject(s) IN
    IF j.ok /\ j.name # "" THEN [ok |-> TRUE, name |-> j.name, code |-> 0]
    ELSE NoJson

(* from_str::<SendMessageErrorResponse>: the error field is required.      *)
DecodeError(s) ==
    LET j == JsonObject(s) IN
    IF j.ok /\ j.code # 0 THEN [ok |-> TRUE, name |-> "", code |-> j.code]
    ELSE NoJson

(***************************************************************************)
(* The batch response parser.  A parsed part is "Ok" with name (a success  *)
(* response), "Err" with code (a per-item error response) or "Fail"        *)
(* (Error::ResponseDeserialize).                                           *)
(***************************************************************************)
ItemOk(n) == [kind |-> "Ok", name |-> n, code |-> 0]
ItemErr(c) == [kind |-> "Err", name |-> "", code |-> c]
ItemFail == [kind |-> "Fail", name |-> "", code |-> 0]

BlankLine == << "CRLF", "CRLF" >>

LastOf(ss) == ss[Len(ss)]

(* x.split("\r\n\r\n").last() *)
PayloadOf(x) == LastOf(Split(x, BlankLine))

FirstLineWhole(x) == x

(* x.split("\r\n").next() *)
FirstLine(x) == Split(x, << "CRLF" >>)[1]

ParseResponseErrorFirst(x) ==
    LET payload == PayloadOf(x)
        xx == FirstLine(payload)
    IN  IF DecodeSuccess(xx).ok THEN ItemOk(DecodeSuccess(xx).name)
        ELSE IF DecodeError(payload).ok THEN ItemErr(DecodeError(payload).code)
        ELSE IF DecodeSuccess(payload).ok THEN ItemOk(DecodeSuccess(payload).name)
        ELSE ItemFail

ParseResponse(x) ==
    LET payload == PayloadOf(x)
        xx == FirstLine(payload)
    IN  IF DecodeSuccess(xx).ok THEN ItemOk(DecodeSuccess(xx).name)
        ELSE IF DecodeSuccess(payload).ok THEN ItemOk(DecodeSuccess(payload).name)
        ELSE IF DecodeError(payload).ok THEN ItemErr(DecodeError(payload).code)
        ELSE ItemFail

(* format!("--{boundary}") *)
Delimiter(boundary) == << "--" >> \o boundary

NotEmpty(s) == s # << >>

TrimAll(ss) == [i \in 1..Len(ss) |-> Trim(ss[i])]

(* split, trim, filter, take *)
Fragments(x, boundary, batch_len) ==
    Take(SelectSeq(TrimAll(Split(x, Delimiter(boundary))), NotEmpty), batch_len)

(* collect::<Result<Vec<_>, _>>(): the first Fail is the result of the     *)
(* whole parse.                                                            *)
Collect(items) ==
    IF \E i \in 1..Len(items) : items[i].kind = "Fail"
    THEN [kind |-> "Err", error |-> "ResponseDeserialize", items |-> << >>,
          code |-> 0]
    ELSE [kind |-> "Ok", error |-> "", items |-> items, code |-> 0]

ParseBatchResponse(x, boundary, batch_len) ==
    LET fs == Fragments(x, boundary, batch_len) IN
    Collect([i \in 1..Len(fs) |-> ParseResponse(fs[i])])

(* parse_boundary: None, or Some(the text after "boundary=").              *)
ParseBoundary(x) ==
    LET ps == TrimAll(Split(x, << ";" >>))
        hit == { i \in 1..Len(ps) : StartsWith(ps[i], << "boundary=" >>) }
    IN  IF hit = {} THEN None
        ELSE LET i == CHOOSE k \in hit : \A m \in hit : k <= m IN
             Some(RemoveFirst(ps[i], << "boundary=" >>))

VARIABLES now, ticks, calls, build, cache, readers, writer, pc, op, seen,
          seenAt, tok, at, got, ret, didRefresh, issued, log

oauthVars == << now, ticks, calls, build, cache, readers, writer, pc, op,
                seen, seenAt, tok, at, got, ret, didRefresh, issued, log >>

VARIABLES sstate, batchLen, bearer, sRefreshed, bodyBuilt, requests, resp,
          parserRan, result

sendVars == << sstate, batchLen, bearer, sRefreshed, bodyBuilt, requests,
               resp, parserRan, result >>

VARIABLES pcase, bcase

parseVars == << pcase, bcase >>

vars == << oauthVars, sendVars, parseVars >>

(***************************************************************************)
(* GoogleOAuth2::from_credential: the holder starts empty and update_token *)
(* runs once before the object is shared.                                  *)
(***************************************************************************)
InitToken == Encode(PayloadNew(StartNow))

InitOAuth ==
    /\ now = StartNow
    /\ ticks = 0
    /\ calls = 0
    /\ build \in {"debug", "release"}
    /\ cache = Some(InitToken)
    /\ readers = {}
    /\ writer = 0
    /\ pc = [p \in Procs |-> "idle"]
    /\ op = [p \in Procs |-> "none"]
    /\ seen = [p \in Procs |-> None]
    /\ seenAt = [p \in Procs |-> 0]
    /\ tok = [p \in Procs |-> None]
    /\ at = [p \in Procs |-> 0]
    /\ got = [p \in Procs |-> None]
    /\ ret = [p \in Procs |-> None]
    /\ didRefresh = [p \in Procs |-> FALSE]
    /\ issued = {InitToken}
    /\ log = << [tok |-> InitToken, at |-> StartNow] >>

(* A thread enters get_token, update_token or get_or_update_token.         *)
Call(p, o) ==
    /\ pc[p] = "idle"
    /\ calls < MaxCalls
    /\ calls' = calls + 1
    /\ op' = [op EXCEPT ![p] = o]
    /\ pc' = [pc EXCEPT ![p] = IF o = "update" THEN "upd_sign" ELSE "get_lock"]
    /\ seen' = [seen EXCEPT ![p] = None]
    /\ seenAt' = [seenAt EXCEPT ![p] = 0]
    /\ tok' = [tok EXCEPT ![p] = None]
    /\ got' = [got EXCEPT ![p] = None]
    /\ ret' = [ret EXCEPT ![p] = None]
    /\ didRefresh' = [didRefresh EXCEPT ![p] = FALSE]
    /\ UNCHANGED << now, ticks, build, cache, readers, writer, at, issued, log >>
    /\ UNCHANGED << sendVars, parseVars >>

(* get_token: self.oauth2_token.read() and the clone of the content.       *)
GetLock(p) ==
    /\ pc[p] = "get_lock"
    /\ CanRead(writer, readers)
    /\ readers' = readers \cup {p}
    /\ seen' = [seen EXCEPT ![p] = cache]
    /\ pc' = [pc EXCEPT ![p] = "get_check"]
    /\ UNCHANGED << now, ticks, calls, build, cache, writer, op, seenAt, tok,
                    at, got, ret, didRefresh, issued, log >>
    /\ UNCHANGED << sendVars, parseVars >>

(* get_token: the match with its check guard; the read guard is dropped on *)
(* return and on unwinding.  Under get_or_update_token a None continues in *)
(* update_token.                                                           *)
GetCheck(p) ==
    /\ pc[p] = "get_check"
    /\ readers' = readers \ {p}
    /\ seenAt' = [seenAt EXCEPT ![p] = now]
    /\ LET r == GetTokenResult(seen[p], now, build) IN
       IF r.kind = "panic"
       THEN /\ pc' = [pc EXCEPT ![p] = "panicked"]
            /\ UNCHANGED << got, ret >>
       ELSE /\ got' = [got EXCEPT ![p] = r.v]
            /\ IF op[p] = "goru" /\ NeedsUpdate(r.v)
               THEN /\ ret' = ret
                    /\ pc' = [pc EXCEPT ![p] = "upd_sign"]
               ELSE /\ ret' = [ret EXCEPT ![p] = r.v]
                    /\ pc' = [pc EXCEPT ![p] = "idle"]
    /\ UNCHANGED << now, ticks, calls, build, cache, writer, op, seen, tok, at,
                    didRefresh, issued, log >>
    /\ UNCHANGED << sendVars, parseVars >>

(* update_token: Payload::new reads the clock and encode signs; no lock is *)
(* held.                                                                   *)
UpdSign(p) ==
    /\ pc[p] = "upd_sign"
    /\ tok' = [tok EXCEPT ![p] = Some(Encode(PayloadNew(now)))]
    /\ at' = [at EXCEPT ![p] = now]
    /\ issued' = issued \cup {Encode(PayloadNew(now))}
    /\ didRefresh' = [didRefresh EXCEPT ![p] = TRUE]
    /\ pc' = [pc EXCEPT ![p] = "upd_lock"]
    /\ UNCHANGED << now, ticks, calls, build, cache, readers, writer, op, seen,
                    seenAt, got, ret, log >>
    /\ UNCHANGED << sendVars, parseVars >>

(* update_token: self.oauth2_token.write().                                *)
UpdAcquire(p) ==
    /\ pc[p] = "upd_lock"
    /\ CanWrite(writer, readers)
    /\ writer' = p
    /\ pc' = [pc EXCEPT ![p] = "upd_replace"]
    /\ UNCHANGED << now, ticks, calls, build, cache, readers, op, seen, seenAt,
                    tok, at, got, ret, didRefresh, issued, log >>
    /\ UNCHANGED << sendVars, parseVars >>

(* update_token: oauth2_token_holder.replace(..) starts writing.           *)
UpdReplace(p) ==
    /\ pc[p] = "upd_replace"
    /\ cache' = MidWrite
    /\ pc' = [pc EXCEPT ![p] = "upd_release"]
    /\ UNCHANGED << now, ticks, calls, build, readers, writer, op, seen,
                    seenAt, tok, at, got, ret, didRefresh, issued, log >>
    /\ UNCHANGED << sendVars, parseVars >>

(* update_token: the replace completes, the write guard is dropped and the *)
(* new token is returned.                                                  *)
UpdRelease(p) ==
    /\ pc[p] = "upd_release"
    /\ cache' = tok[p]
    /\ writer' = 0
    /\ ret' = [ret EXCEPT ![p] = tok[p]]
    /\ log' = << log[Len(log)], [tok |-> Unwrap(tok[p]), at |-> at[p]] >>
    /\ pc' = [pc EXCEPT ![p] = "idle"]
    /\ at' = [at EXCEPT ![p] = 0]
    /\ UNCHANGED << now, ticks, calls, build, readers, op, seen, seenAt, tok,
                    got, didRefresh, issued >>
    /\ UNCHANGED << sendVars, parseVars >>

(* The system clock (SystemTime::now) advances, or is stepped back.        *)
Tick(d) ==
    /\ ticks < MaxTicks
    /\ ticks' = ticks + 1
    /\ now' = now + d
    /\ UNCHANGED << calls, build, cache, readers, writer, pc, op, seen, seenAt, tok,
          at, got, ret,
                    didRefresh, issued, log >>
    /\ UNCHANGED << sendVars, parseVars >>

StepBack ==
    /\ ticks < MaxTicks
    /\ now > 0
    /\ ticks' = ticks + 1
    /\ now' = now - 1
    /\ UNCHANGED << calls, build, cache, readers, writer, pc, op, seen, seenAt,
                    tok, at, got, ret, didRefresh, issued, log >>
    /\ UNCHANGED << sendVars, parseVars >>

(***************************************************************************)
(* FirebaseCloudMessaging::send_to_devices.  A result is "Ok" with the     *)
(* per-item results or "Err" with the Error variant (and the code of the   *)
(* provider error of Error::SendMessage).                                  *)
(***************************************************************************)
NoResult == [kind |-> "None", error |-> "", items |-> << >>, code |-> 0]
OkResult(items) == [kind |-> "Ok", error |-> "", items |-> items, code |-> 0]
ErrResult(e, c) == [kind |-> "Err", error |-> e, items |-> << >>, code |-> c]

NoResp == [status |-> 0, ctype |-> << >>, body |-> << >>, readable |-> FALSE]

UseParserAnyStatus(status, boundary) == IsSome(boundary)

(* The first arm of the match on (res.status(), res_boundary).             *)
UseParser(status, boundary) == status = StatusOK /\ IsSome(boundary)

(* The match of send_to_devices on a response; readable is whether         *)
(* res.text() succeeds.                                                    *)
HandleResponse(r, batch_len) ==
    LET res_boundary == ParseBoundary(r.ctype) IN
    IF ~r.readable THEN ErrResult("Reqwest", 0)
    ELSE IF UseParser(r.status, res_boundary)
    THEN ParseBatchResponse(Trim(r.body), Unwrap(res_boundary), batch_len)
    ELSE LET e == DecodeError(r.body) IN
         IF e.ok THEN ErrResult("SendMessage", e.code)
         ELSE ErrResult("ResponseDeserialize", 0)

(* The response bodies the transport delivers here: a multipart body with  *)
(* boundary b1 (a preamble, parts, a closing terminator or none) or a bare *)
(* text.                                                                   *)
PartHeaders == << "H", "CRLF", "CRLF", "H", "CRLF", "CRLF" >>

OneLineOk == << "OkA" >>
ManyLineOk == << "{", "CRLF", "SP", "nB", "CRLF", "}" >>
ManyLineErr == << "{", "CRLF", "SP", "e", "CRLF", "}" >>
ManyLineBoth == << "{", "CRLF", "SP", "ne", "CRLF", "}" >>
NotJson == << "H" >>

PartOf(payload) ==
    << "--", "b1", "CRLF" >> \o PartHeaders \o payload \o << "CRLF", "CRLF" >>

Terminator == << "--", "b1", "--" >>

SeqsUpTo(S, n) == UNION { [1..k -> S] : k \in 0..n }

BodyOf(pre, payloads, term) ==
    pre \o Concat([i \in 1..Len(payloads) |-> PartOf(payloads[i])]) \o term

Preambles == { << >>, << "H", "CRLF" >> }
Terminators == { << >>, Terminator }

SendBodies ==
    { BodyOf(<< >>, ps, term) :
        ps \in SeqsUpTo({OneLineOk, ManyLineErr}, MaxParts),
        term \in Terminators }
    \cup {<< "Err" >>, ManyLineErr, NotJson}

ContentTypes ==
    { << >>,
      << "H", ";", "SP", "H" >>,
      << "H", ";", "SP", "boundary=", "b1" >> }

Statuses == {StatusOK, 204, 400}

InitSend ==
    /\ sstate = "idle"
    /\ batchLen = 0
    /\ bearer = None
    /\ sRefreshed = FALSE
    /\ bodyBuilt = FALSE
    /\ requests = 0
    /\ resp = NoResp
    /\ parserRan = FALSE
    /\ result = NoResult

(* send_to_devices up to req.send(): get_or_update_token, one add_part per *)
(* registration token, the return on an empty batch, add_end_boundary, the *)
(* join and the request.                                                   *)
SendCall(n) ==
    /\ sstate = "idle"
    /\ calls < MaxCalls
    /\ calls' = calls + 1
    /\ batchLen' = n
    /\ resp' = NoResp
    /\ parserRan' = FALSE
    /\ LET r == GetTokenResult(cache, now, build) IN
       IF r.kind = "panic"
       THEN /\ sstate' = "panicked"
            /\ UNCHANGED << cache, issued, log, bearer, sRefreshed, bodyBuilt,
                            requests, result >>
       ELSE /\ IF NeedsUpdate(r.v)
               THEN /\ cache' = Some(Encode(PayloadNew(now)))
                    /\ issued' = issued \cup {Encode(PayloadNew(now))}
                    /\ log' = << log[Len(log)],
                                 [tok |-> Encode(PayloadNew(now)), at |-> now] >>
                    /\ bearer' = Some(Encode(PayloadNew(now)))
                    /\ sRefreshed' = TRUE
               ELSE /\ UNCHANGED << cache, issued, log >>
                    /\ bearer' = r.v
                    /\ sRefreshed' = FALSE
            /\ IF n = 0
               THEN /\ result' = OkResult(<< >>)
                    /\ sstate' = "done"
                    /\ bodyBuilt' = FALSE
                    /\ requests' = 0
               ELSE /\ result' = NoResult
                    /\ sstate' = "sent"
                    /\ bodyBuilt' = TRUE
                    /\ requests' = 1
    /\ UNCHANGED << now, ticks, build, readers, writer, pc, op, seen, seenAt,
                    tok, at, got, ret, didRefresh >>
    /\ UNCHANGED parseVars

(* req.send().await? fails.                                                *)
TransportFail ==
    /\ sstate = "sent"
    /\ result' = ErrResult("Reqwest", 0)
    /\ sstate' = "done"
    /\ UNCHANGED << batchLen, bearer, sRefreshed, bodyBuilt, requests, resp,
                    parserRan >>
    /\ UNCHANGED << oauthVars, parseVars >>

(* The transport delivers a response.                                      *)
Respond(st, ct, body, readable) ==
    /\ sstate = "sent"
    /\ resp' = [status |-> st, ctype |-> ct, body |-> body,
                readable |-> readable]
    /\ sstate' = "responded"
    /\ UNCHANGED << batchLen, bearer, sRefreshed, bodyBuilt, requests,
                    parserRan, result >>
    /\ UNCHANGED << oauthVars, parseVars >>

(* send_to_devices from parse_boundary to its return.                      *)
Handle ==
    /\ sstate = "responded"
    /\ result' = HandleResponse(resp, batchLen)
    /\ parserRan' = (resp.readable
                       /\ UseParser(resp.status, ParseBoundary(resp.ctype)))
    /\ sstate' = "done"
    /\ UNCHANGED << batchLen, bearer, sRefreshed, bodyBuilt, requests, resp >>
    /\ UNCHANGED << oauthVars, parseVars >>

(* The caller has the result; the client is ready for the next call.       *)
Return ==
    /\ sstate = "done"
    /\ sstate' = "idle"
    /\ batchLen' = 0
    /\ bearer' = None
    /\ sRefreshed' = FALSE
    /\ bodyBuilt' = FALSE
    /\ resp' = NoResp
    /\ parserRan' = FALSE
    /\ result' = NoResult
    /\ requests' = 0
    /\ UNCHANGED << oauthVars, parseVars >>

(***************************************************************************)
(* The parser applied to inputs of its own: parse_response to a part and   *)
(* to the part with a trailer appended, parse_batch_response to a body.    *)
(***************************************************************************)
NoPart ==
    [payload |-> << >>, trailer |-> << >>, bare |-> ItemFail,
     trailed |-> ItemFail, done |-> FALSE]

NoBatch ==
    [body |-> << >>, boundary |-> << >>, n |-> 0, payloads |-> << >>,
     pre |-> << >>, term |-> << >>, out |-> NoResult, done |-> FALSE]

InitParse ==
    /\ pcase = NoPart
    /\ bcase = NoBatch

Payloads ==
    { OneLineOk, << "OkB" >>, ManyLineOk, ManyLineErr, << "Err" >>, << "Both" >>,
      << "Obj" >>, NotJson, << "{", "CRLF", "nA" >>, ManyLineBoth,
      << "Both", "CRLF", "H" >>, << "Err", "CRLF", "CRLF", "OkB" >> }

Trailers ==
    { << "SP" >>, << "CRLF" >>, << "CRLF", "CRLF" >>, << "SP", "CRLF", "SP" >>,
      << "CRLF", "H" >>, << "SP", "CRLF", "H", "CRLF", "H" >>,
      << "CRLF", "CRLF", "H" >>, << "CRLF", "H", "CRLF", "CRLF", "OkB" >>,
      << "SP", "H" >> }

(* A fragment between two delimiters: the part headers, then the payload. *)
PartText(pl) == << "CRLF" >> \o PartHeaders \o pl

(* parse_response on a fragment as parse_batch_response hands it over      *)
(* (trimmed), without and with the trailer.                                *)
ParsePart(pl, t) ==
    /\ ~pcase.done /\ ~bcase.done
    /\ pcase' = [payload |-> pl, trailer |-> t,
                 bare |-> ParseResponse(Trim(PartText(pl))),
                 trailed |-> ParseResponse(Trim(PartText(pl) \o t)),
                 done |-> TRUE]
    /\ UNCHANGED bcase
    /\ UNCHANGED << oauthVars, sendVars >>

BatchPayloads == { OneLineOk, ManyLineOk, ManyLineErr, ManyLineBoth, NotJson }

ParseBatch(pre, ps, term, boundary, n) ==
    /\ ~pcase.done /\ ~bcase.done
    /\ bcase' = [body |-> BodyOf(pre, ps, term), boundary |-> boundary, n |-> n,
                 payloads |-> ps, pre |-> pre, term |-> term,
                 out |-> ParseBatchResponse(BodyOf(pre, ps, term), boundary, n),
                 done |-> TRUE]
    /\ UNCHANGED pcase
    /\ UNCHANGED << oauthVars, sendVars >>

Init == InitOAuth /\ InitSend /\ InitParse

Next ==
    \/ \E p \in Procs : \E o \in {"get", "update", "goru"} : Call(p, o)
    \/ \E p \in Procs : GetLock(p)
    \/ \E p \in Procs : GetCheck(p)
    \/ \E p \in Procs : UpdSign(p)
    \/ \E p \in Procs : UpdAcquire(p)
    \/ \E p \in Procs : UpdReplace(p)
    \/ \E p \in Procs : UpdRelease(p)
    \/ \E d \in {1, FreshFor, FreshFor + 1} : Tick(d)
    \/ StepBack

Spec == Init /\ [][Next]_vars

NextSend ==
    \/ \E n \in 0..MaxBatch : SendCall(n)
    \/ TransportFail
    \/ \E st \in Statuses, ct \in ContentTypes, body \in SendBodies :
          Respond(st, ct, body, TRUE)
    \/ \E st \in Statuses, ct \in ContentTypes : Respond(st, ct, << >>, FALSE)
    \/ Handle
    \/ Return
    \/ \E d \in {1, FreshFor + 1} : Tick(d)
    \/ StepBack

SpecSend == Init /\ [][NextSend]_vars

NextParse ==
    \/ \E pl \in Payloads, t \in Trailers : ParsePart(pl, t)
    \/ \E pre \in Preambles, ps \in SeqsUpTo(BatchPayloads, MaxParts),
          term \in Terminators, b \in {<< "b1" >>, << "b2" >>},
          n \in 1..MaxBatch :
          ParseBatch(pre, ps, term, b, n)

SpecParse == Init /\ [][NextParse]_vars

(***************************************************************************)
(* Properties of the token cache.                                          *)
(***************************************************************************)
Last == log[Len(log)]

Returned(p, ops) == pc[p] = "idle" /\ op[p] \in ops

(* The freshness condition as the specification states it, on integers.    *)
FreshOnIntegers(c, t) ==
    /\ IsSome(c)
    /\ IsSome(DecodePayload(Unwrap(c)))
    /\ t - Unwrap(DecodePayload(Unwrap(c))).iat <= FreshFor

(* C2: get() returns the cached token if and only if the cache holds a     *)
(* token whose claims decode and whose iat satisfies now - iat <= 3420,    *)
(* and otherwise returns nothing; it never ends in a fatal error.          *)
C2_GetIffFresh ==
    \A p \in Procs :
        (op[p] = "get" /\ pc[p] \in {"idle", "panicked"}) =>
            /\ pc[p] = "idle"
            /\ FreshOnIntegers(seen[p], seenAt[p]) => ret[p] = seen[p]
            /\ ~FreshOnIntegers(seen[p], seenAt[p]) => ret[p] = None

(* C3: get_or_update_token returns what its get_token returned whenever    *)
(* that is a token, and then issues nothing and writes nothing; it runs    *)
(* update_token, and returns its result, only when get_token gave None.    *)
(* While the clock reading is that of construction and no update_token has *)
(* returned, every get_token and get_or_update_token returns the token of  *)
(* construction.                                                           *)
C3_GetOrUpdate ==
    /\ \A p \in Procs :
          /\ Returned(p, {"goru"}) =>
                /\ IsSome(got[p]) => (ret[p] = got[p] /\ ~didRefresh[p])
                /\ ~IsSome(got[p]) => (didRefresh[p] /\ ret[p] = tok[p])
                /\ IsSome(ret[p])
          /\ (op[p] = "goru" /\ (didRefresh[p] \/ pc[p] \in
                   {"upd_sign", "upd_lock", "upd_replace", "upd_release"}))
                => ~IsSome(got[p])
    /\ (ticks = 0 /\ Len(log) = 1) =>
          /\ writer = 0 => cache = Some(InitToken)
          /\ \A p \in Procs :
                Returned(p, {"get", "goru"}) => ret[p] = Some(InitToken)

C3_Witness ==
    \E p \in Procs :
        /\ Returned(p, {"goru"})
        /\ ret[p] = Some(InitToken)
        /\ ~didRefresh[p]
        /\ \E q \in Procs : q # p /\ Returned(q, {"get"}) /\ ret[q] = ret[p]

(* C4: update_token always issues a token from the current clock reading,  *)
(* stores it and returns it: whenever no writer holds the lock the cache   *)
(* is the token the last update_token returned; two update_token calls     *)
(* with different clock readings return different tokens; and a get_token  *)
(* or get_or_update_token reads the token the last update_token returned   *)
(* and returns it when its clock reading is at most 3420 seconds after     *)
(* that token's iat.                                                       *)
C4_Refresh ==
    /\ writer = 0 => cache = Some(Last.tok)
    /\ IsSome(DecodePayload(Last.tok))
    /\ Unwrap(DecodePayload(Last.tok)).iat = Last.at
    /\ (Len(log) = 2 /\ log[1].at # log[2].at) => log[1].tok # log[2].tok
    /\ \A p \in Procs :
          /\ (Returned(p, {"update"}) \/ (Returned(p, {"goru"}) /\ didRefresh[p]))
                => (ret[p] = tok[p] /\ IsSome(ret[p]) /\ Unwrap(ret[p]) \in issued)
          /\ pc[p] = "get_check" => seen[p] = Some(Last.tok)
          /\ (Returned(p, {"get", "goru"}) /\ IsSome(seen[p])
                 /\ seenAt[p] >= Unwrap(DecodePayload(Unwrap(seen[p]))).iat
                 /\ seenAt[p] - Unwrap(DecodePayload(Unwrap(seen[p]))).iat
                        <= FreshFor)
                => (ret[p] = seen[p] /\ ~didRefresh[p])

C4_Witness ==
    \E p, q \in Procs :
        /\ Returned(p, {"update"})
        /\ Len(log) = 2 /\ log[1].tok # log[2].tok
        /\ ret[p] = Some(Last.tok)
        /\ Returned(q, {"get", "goru"})
        /\ ret[q] = ret[p]

(* C5: a thread in update_token holds no lock while it signs and holds the *)
(* write lock only for the swap; while no thread is in the swap a          *)
(* get_token waiting for the read lock can take it, whether or not another *)
(* thread is signing or other readers hold the lock; and what a reader     *)
(* reads is the token the last completed update_token stored, never the    *)
(* content of a swap in progress.                                          *)
InSwap(p) == pc[p] \in {"upd_replace", "upd_release"}

C5_Locking ==
    /\ \A p \in Procs :
          /\ pc[p] \in {"upd_sign", "upd_lock"} => (writer # p /\ p \notin readers)
          /\ writer = p <=> InSwap(p)
          /\ p \in readers <=> pc[p] = "get_check"
          /\ (pc[p] = "get_lock" /\ \A q \in Procs : ~InSwap(q))
                => ENABLED GetLock(p)
          /\ pc[p] = "get_check" =>
                /\ seen[p] # MidWrite
                /\ IsSome(seen[p])
                /\ Unwrap(seen[p]) \in issued
                /\ seen[p] = Some(Last.tok)
    /\ writer # 0 => readers = {}

C5_Witness ==
    \E p, q \in Procs :
        /\ pc[p] = "get_check"
        /\ p \in readers
        /\ pc[q] = "upd_lock"
        /\ tok[q] # seen[p]
        /\ seen[p] = cache

IatOf(token) == Unwrap(DecodePayload(token)).iat

AllReturned == \A p \in Procs : pc[p] = "idle"

(* No issued token is dated after the present clock reading.               *)
ClockNotBehind == \A t \in issued : IatOf(t) <= now

(* C11: under any interleaving of concurrent update_token calls the cached *)
(* token never moves backwards in time: a token stored in the cache is     *)
(* never followed by a token with an earlier iat, and when every call has  *)
(* returned the cache holds the token with the latest iat ever issued.     *)
C11_NeverBackwards ==
    ClockNotBehind =>
        /\ Len(log) = 2 => IatOf(log[1].tok) <= IatOf(log[2].tok)
        /\ (AllReturned /\ writer = 0) =>
              \A t \in issued : IatOf(t) <= IatOf(Unwrap(cache))

(* C12: for a decodable cached token and any clock reading, also one       *)
(* below the token's iat, get_token and get_or_update_token finish their   *)
(* freshness check without a fatal error, and a token whose iat is later   *)
(* than the clock reading is not taken for stale.                          *)
C12_NoUnderflow ==
    \A p \in Procs :
        (/\ op[p] \in {"get", "goru"}
         /\ pc[p] \notin {"get_lock", "get_check"}
         /\ IsSome(seen[p])
         /\ IsSome(DecodePayload(Unwrap(seen[p])))
         /\ seenAt[p] < IatOf(Unwrap(seen[p])))
            => (pc[p] # "panicked" /\ got[p] = seen[p] /\ ~didRefresh[p])

(***************************************************************************)
(* Properties of send_to_devices.                                          *)
(***************************************************************************)
Finished == sstate = "done"

(* C1: a call with n > 0 registration tokens returns exactly n results or  *)
(* fails as a whole with an error.                                         *)
C1_AllOrNothing ==
    (Finished /\ batchLen > 0) =>
        \/ result.kind = "Err"
        \/ result.kind = "Ok" /\ Len(result.items) = batchLen

HasBoundary(ct) == \E i \in 1..Len(ct) : ct[i] = "boundary="

ErrorShaped(body) == body \in {<< "Err" >>, ManyLineErr}

Answered == Finished /\ batchLen > 0 /\ resp # NoResp

(* C6 as stated: a response whose status is not success yields, whatever   *)
(* the shape of its body, Error::SendMessage for the whole call.           *)
IsSuccess(status) == status \in 200..299

C6_AlwaysSendMessage ==
    (Answered /\ resp.readable /\ ~IsSuccess(resp.status)) =>
        (result.kind = "Err" /\ result.error = "SendMessage")

(* C6 as amended: a response whose status is not 200 OK yields one error   *)
(* for the whole call and never per-item results: Error::SendMessage with  *)
(* the provider's error when the body has the error shape,                 *)
(* Error::ResponseDeserialize when it has not, Error::Reqwest when the     *)
(* body cannot be read; the parser runs only when the status is 200 OK and *)
(* the content type carries a boundary parameter.                          *)
C6_OneError ==
    Answered =>
        /\ resp.status # StatusOK =>
             /\ result.kind = "Err"
             /\ result.items = << >>
             /\ ~parserRan
             /\ (resp.readable /\ ErrorShaped(resp.body))
                   => (result.error = "SendMessage" /\ result.code = 400)
             /\ (resp.readable /\ ~ErrorShaped(resp.body))
                   => result.error = "ResponseDeserialize"
             /\ ~resp.readable => result.error = "Reqwest"
        /\ parserRan => (resp.status = StatusOK /\ HasBoundary(resp.ctype))
        /\ (resp.status = StatusOK /\ HasBoundary(resp.ctype) /\ resp.readable)
             => parserRan

C6_Witness ==
    /\ Answered
    /\ resp.status = 400
    /\ HasBoundary(resp.ctype)
    /\ resp.body = << "Err" >>
    /\ result = ErrResult("SendMessage", 400)

(* C7: a call with no registration token returns the empty sequence and    *)
(* does nothing else: it builds no body, issues no request, and leaves the *)
(* token cache as it was.                                                  *)
C7_EmptyDoesNothing ==
    (Finished /\ batchLen = 0) =>
        /\ result = OkResult(<< >>)
        /\ ~bodyBuilt
        /\ requests = 0
        /\ resp = NoResp
        /\ ~sRefreshed

(***************************************************************************)
(* Properties of the parser.                                               *)
(***************************************************************************)
(* What each payload decodes to, written out by hand in the order first   *)
(* line as success, whole as success, whole as error.                      *)
Decoding(pl) ==
    IF pl = OneLineOk THEN ItemOk("A")
    ELSE IF pl = << "OkB" >> THEN ItemOk("B")
    ELSE IF pl = ManyLineOk THEN ItemOk("B")
    ELSE IF pl = ManyLineErr THEN ItemErr(400)
    ELSE IF pl = << "Err" >> THEN ItemErr(400)
    ELSE IF pl = << "Both" >> THEN ItemOk("A")
    ELSE IF pl = ManyLineBoth THEN ItemOk("A")
    ELSE IF pl = << "Both", "CRLF", "H" >> THEN ItemOk("A")
    ELSE IF pl = << "Err", "CRLF", "CRLF", "OkB" >> THEN ItemOk("B")
    ELSE ItemFail

Decodings(pls) == [i \in 1..Len(pls) |-> Decoding(pls[i])]

OwnBoundary == bcase.done /\ bcase.boundary = << "b1" >>

(* C8 as stated: the preamble and the closing terminator contribute no     *)
(* element; result i is the decoding of the i-th part and the parts after  *)
(* the first n are ignored.                                                *)
C8_PartsOnly ==
    OwnBoundary =>
        bcase.out = Collect(Take(Decodings(bcase.payloads), bcase.n))

(* C8 as amended: only an empty preamble contributes no element.  A        *)
(* preamble with text, and the "--" that the split leaves of the closing   *)
(* terminator, are fragments like the parts, and neither decodes; result i *)
(* is the decoding of the i-th of the first n fragments, and the parse     *)
(* fails as a whole when one of them does not decode.  So with an empty    *)
(* preamble and at least n parts result i is the decoding of the i-th      *)
(* part, and the parts after the first n and the terminator are ignored.   *)
FragmentDecodings ==
    (IF bcase.pre = << >> THEN << >> ELSE << ItemFail >>)
        \o Decodings(bcase.payloads)
        \o (IF bcase.term = << >> THEN << >> ELSE << ItemFail >>)

C8_FirstFragments ==
    OwnBoundary =>
        /\ bcase.out = Collect(Take(FragmentDecodings, bcase.n))
        /\ (bcase.pre = << >> /\ Len(bcase.payloads) >= bcase.n) =>
              bcase.out = Collect(Take(Decodings(bcase.payloads), bcase.n))

C8_Witness ==
    /\ OwnBoundary
    /\ bcase.pre = << >>
    /\ bcase.term = Terminator
    /\ bcase.n = 2
    /\ bcase.payloads = << OneLineOk, ManyLineErr >>
    /\ bcase.out = OkResult(<< ItemOk("A"), ItemErr(400) >>)

BareSuccess(pl) == pl \in {OneLineOk, << "OkB" >>}

(* Whitespace, or further lines: after spaces, nothing or a line break.    *)
RECURSIVE DropSpaces(_)
DropSpaces(t) ==
    IF t # << >> /\ Head(t) = "SP" THEN DropSpaces(Tail(t)) ELSE t

WhitespaceOrLines(t) == DropSpaces(t) = << >> \/ Head(DropSpaces(t)) = "CRLF"

(* C9 as stated: a part whose payload is a bare single-line success object *)
(* parses to the same success with whitespace or extra lines appended.     *)
C9_AnyTrailer ==
    (pcase.done /\ BareSuccess(pcase.payload) /\ WhitespaceOrLines(pcase.trailer))
        => (pcase.bare.kind = "Ok" /\ pcase.trailed = pcase.bare)

(* C9 as amended: the same, provided that what is appended holds, once     *)
(* trailing whitespace is trimmed, no blank line.                          *)
NoBlankLine(t) == ~HasMatch(TrimEnd(t), BlankLine)

C9_TrailerWithoutBlankLine ==
    (pcase.done /\ BareSuccess(pcase.payload) /\ WhitespaceOrLines(pcase.trailer)
       /\ NoBlankLine(pcase.trailer))
        => (pcase.bare = Decoding(pcase.payload) /\ pcase.trailed = pcase.bare)

C9_Witness ==
    /\ pcase.done
    /\ pcase.payload = OneLineOk
    /\ pcase.trailer = << "SP", "CRLF", "H", "CRLF", "H" >>
    /\ pcase.trailed = ItemOk("A")

(* C10: the payload is the text after the last blank line; the first line  *)
(* as a success, then the whole as a success, then the whole as an error   *)
(* decide the result, and a part that is none of them fails the parse of   *)
(* the whole batch, which then returns no result at all.                   *)
C10_DecodeOrder ==
    /\ pcase.done =>
         /\ pcase.bare = Decoding(pcase.payload)
         /\ LET x == Trim(PartText(pcase.payload) \o pcase.trailer)
                payload == LastOf(Split(x, BlankLine))
                first == DecodeSuccess(Split(payload, << "CRLF" >>)[1])
                whole == DecodeSuccess(payload)
                error == DecodeError(payload)
            IN  /\ first.ok => pcase.trailed = ItemOk(first.name)
                /\ (~first.ok /\ whole.ok) => pcase.trailed = ItemOk(whole.name)
                /\ (~first.ok /\ ~whole.ok /\ error.ok)
                      => pcase.trailed = ItemErr(error.code)
                /\ (~first.ok /\ ~whole.ok /\ ~error.ok)
                      => pcase.trailed = ItemFail
    /\ OwnBoundary =>
         /\ (\E i \in 1..Len(Take(FragmentDecodings, bcase.n)) :
                 FragmentDecodings[i] = ItemFail)
               => bcase.out = ErrResult("ResponseDeserialize", 0)
         /\ bcase.out.kind = "Err" => bcase.out.items = << >>

C10_Witness ==
    /\ bcase.done
    /\ bcase.boundary = << "b1" >>
    /\ bcase.n = 2
    /\ bcase.pre = << >>
    /\ bcase.payloads = << ManyLineBoth, NotJson >>
    /\ bcase.out = ErrResult("ResponseDeserialize", 0)

=============================================================================
